---- MODULE Spec2Model ----
(***************************************************************************)
(* Model of GaeRunner (src/runners/gae_runner.py): the joint training loop *)
(* of a graph autoencoder with a deep-clustering objective.                *)
(*                                                                         *)
(* The state is the runner's fields (Q, P, clusters_centroids,             *)
(* first_interaction, ...), the locals of run_training and __train_network *)
(* and the position `pc` of the single thread of control.  Tensors are     *)
(* abstracted to what the control flow reads of them: Z to the epoch that  *)
(* encoded it, Q to the Z and the number of centroids it was computed      *)
(* from, P to the Q it was computed from, a loss to whether it is finite   *)
(* and, when it is, to a small integer value.                              *)
(***************************************************************************)
EXTENDS Integers, Sequences, FiniteSets, TLC

\* ---------------------------------------------------------------- bounds
MaxEpochs == 12
MaxClusters == 3
MaxNodes == 5
MaxLongEpochs == 51
MaxGraphNodes == 3
MaxWeight == 2
MaxDivisor == 4

\* ------------------------------------------------------ program constants
C_LOSS_GAMMA == 30
CALC_P_INTERVAL == 10
PAGERANK_TOP == 5
LR_CHANGE_EPOCHS == 50
\* LEARNING_RATE = 0.01 and LR_CHANGE_GAMMA = 0.8, as fractions
LEARNING_RATE_NUM == 1
LEARNING_RATE_DEN == 100
LR_CHANGE_GAMMA_NUM == 8
LR_CHANGE_GAMMA_DEN == 10

VARIABLES
    epochs,              \* self.epochs
    n_clusters,          \* self.n_clusters
    find_centroids_alg,  \* self.find_centroids_alg
    nodes,               \* number of nodes of self.data
    Q,                   \* self.Q
    P,                   \* self.P
    clusters_centroids,  \* self.clusters_centroids
    first_interaction,   \* self.first_interaction
    pc,                  \* position of the thread of control
    epoch,               \* loop variable of run_training
    Z,                   \* embeddings of the last encode
    Lc,                  \* clustering loss of the current epoch
    gae_loss,            \* reconstruction loss of the current epoch
    total_loss,          \* total loss of the current epoch
    error_log,           \* run_training's error_log list
    csv_file,            \* rows written to error_log.csv
    writes,              \* number of calls of csv_writer.write_erros
    steps,               \* steps taken by the current call of __train_network
    seed_calls,          \* number of calls of _find_centroids in this run
    logged,              \* logging events emitted, as <<severity, message>>
    exception,           \* the exception that ended the run, "none" otherwise
    opt_steps,           \* number of optimizer.step() calls
    sched_steps,         \* number of scheduler.step() calls
    lr,                  \* learning rate of the optimizer, a fraction
    labels,              \* r, the hard labels derived in run_training
    G,                   \* utils.remove_edges: the weighted graph G
    x,                   \* utils.remove_edges: the divisor x
    num_rem,             \* utils.remove_edges: num_rem
    re_pc,               \* utils.remove_edges: position of the call
    G_in                 \* utils.remove_edges: the graph as it was passed in

vars == <<epochs, n_clusters, find_centroids_alg, nodes, Q, P, clusters_centroids,
          first_interaction, pc, epoch, Z, Lc, gae_loss, total_loss, error_log,
          csv_file, writes, steps, seed_calls, logged, exception, opt_steps,
          sched_steps, lr, labels, G, x, num_rem, re_pc, G_in>>

\* ------------------------------------------------------------ value model
Recognised == {"PageRank", "KMeans", "FastGreedy", "KCore"}
Algorithms == Recognised \cup {"Unknown"}

Min(a, b) == IF a < b THEN a ELSE b

\* None, and a Python list of centroid vectors.  A vector is abstracted to
\* whether it still is the seeded one or has been moved by the refiner.
None == [isNone |-> TRUE, list |-> <<>>]
List(l) == [isNone |-> FALSE, list |-> l]
Seeded(n) == List([i \in 1..n |-> "seeded"])

\* self.Q = 0 and self.P = 0: the integer placeholders of __init__.
Placeholder == [set |-> FALSE, epoch |-> 0, k |-> 0]

\* A loss: finite with a value, or non-finite (nan, inf).
Finite(v) == [finite |-> TRUE, val |-> v]
NonFinite == [finite |-> FALSE, val |-> 0]
NotComputed == Finite(0)

\* What the external loss functions may return.
LcOutcomes == {Finite(0), Finite(1), NonFinite}
GaeOutcomes == {Finite(1), NonFinite}

\* total_loss = gae_loss + C_LOSS_GAMMA * Lc
TotalLoss(g, l) ==
    IF g.finite /\ l.finite THEN Finite(g.val + C_LOSS_GAMMA * l.val) ELSE NonFinite

\* Lc != 0 (nan != 0 and inf != 0 are both true)
NotZero(l) == ~(l.finite /\ l.val = 0)

\* ---------------------------------------------------- external collaborators
\* find_centroids_methods.by_pagerank(G, k): the k top ranked distinct nodes.
ByPagerank(n, k) == Min(k, n)

\* k_core.find_centroids(G, k): one node of the highest core per cluster.
KCoreCentroids(n, k) == Min(k, n)

\* fast_greedy.run_fast_greedy + fast_greedy.get_clusters_centroids: one
\* representative per community found; a graph of n nodes splits into 1..n.
FastGreedyCounts(n) == 1..n

\* clustering_loss.get_clusters_centroids(Z, k): k-means needs k <= samples.
KMeansFails(n, k) == n < k

\* clustering_loss.calculate_q(centroids, Z)
calculate_q(c, z) == [set |-> TRUE, epoch |-> z, k |-> Len(c.list)]

\* clustering_loss.calculate_p(Q)
calculate_p(q) == [set |-> TRUE, epoch |-> q.epoch, k |-> q.k]

\* clustering_loss.update_clusters_centers(centroids, grad): moves every
\* centroid, never resizes the set.
update_clusters_centers(c) == List([i \in 1..Len(c.list) |-> "refined"])

\* ------------------------------------------------------------ conditions
NeedsSeedingAlsoEmpty(c) == c.isNone \/ c.list = <<>>

\* line 120: if self.clusters_centroids is None
NeedsSeeding(c) == c.isNone

RecomputesPAlways(e) == TRUE

RecomputesPSkippingFirst(e) == e > 0 /\ e % CALC_P_INTERVAL = 0

\* line 126: if epoch % CALC_P_INTERVAL == 0
RecomputesP(e) == e % CALC_P_INTERVAL = 0

ShouldRefineIgnoringFirst(fi, l) == NotZero(l)

\* line 137: if self.first_interaction is False and Lc != 0
ShouldRefine(fi, l) == fi = FALSE /\ NotZero(l)

\* ---------------------------------------------------------- learning rate
\* No optimizer exists before run_training builds one.
NoOptimizer == [num |-> 0, den |-> 1]

\* line 78: torch.optim.Adam(gae.parameters(), lr=LEARNING_RATE)
BaseLR == [num |-> LEARNING_RATE_NUM, den |-> LEARNING_RATE_DEN]

DecaysAtEveryStep(n) == TRUE

\* lines 79-81: StepLR(optimizer, step_size=LR_CHANGE_EPOCHS, ...) decays at
\* its n-th step when n is a multiple of step_size.
DecaysAt(n) == n % LR_CHANGE_EPOCHS = 0

\* lines 79-81: StepLR(..., gamma=LR_CHANGE_GAMMA) multiplies the rate by gamma.
Decay(l) == [num |-> l.num * LR_CHANGE_GAMMA_NUM, den |-> l.den * LR_CHANGE_GAMMA_DEN]

\* ------------------------------------------------------------------ Init
\* lines 33-40, and the locals of a run that has not started.
Constructed ==
    /\ Q = Placeholder
    /\ P = Placeholder
    /\ clusters_centroids = None
    /\ first_interaction = TRUE
    /\ pc = "init"
    /\ epoch = 0
    /\ Z = -1
    /\ Lc = NotComputed
    /\ gae_loss = NotComputed
    /\ total_loss = NotComputed
    /\ error_log = <<>>
    /\ csv_file = <<>>
    /\ writes = 0
    /\ steps = <<>>
    /\ seed_calls = 0
    /\ logged = {}
    /\ exception = "none"
    /\ opt_steps = 0
    /\ sched_steps = 0
    /\ lr = NoOptimizer
    /\ labels = Placeholder

\* No call of utils.remove_edges is in progress.
EdgesIdle ==
    /\ G = [n |-> 0, w |-> <<>>]
    /\ x = 1
    /\ num_rem = 0
    /\ re_pc = "idle"
    /\ G_in = G

Init ==
    /\ epochs \in 0..MaxEpochs
    /\ n_clusters \in 1..MaxClusters
    /\ find_centroids_alg \in Algorithms
    /\ nodes \in 1..MaxNodes
    /\ Constructed
    /\ EdgesIdle

\* Long runs of a small configuration, for the learning-rate schedule.
InitLong ==
    /\ epochs \in {0, MaxLongEpochs}
    /\ n_clusters = 2
    /\ find_centroids_alg \in Algorithms
    /\ nodes \in 1..2
    /\ Constructed
    /\ EdgesIdle

\* ------------------------------------------------------- statement order
SuccessorStepBeforeRefine(p) ==
    CASE p = "encode" -> "seed"
      [] p = "seed" -> "calc_q"
      [] p = "calc_q" -> "calc_p"
      [] p = "calc_p" -> "kl"
      [] p = "kl" -> "recon"
      [] p = "recon" -> "backward"
      [] p = "backward" -> "opt"
      [] p = "opt" -> "refine"
      [] p = "refine" -> "sched"
      [] p = "sched" -> "mark"
      [] p = "mark" -> "ret"

\* The statements of __train_network in the order the code runs them; a
\* position is named by the statement about to run.
Successor(p) ==
    CASE p = "encode" -> "seed"
      [] p = "seed" -> "calc_q"
      [] p = "calc_q" -> "calc_p"
      [] p = "calc_p" -> "kl"
      [] p = "kl" -> "recon"
      [] p = "recon" -> "backward"
      [] p = "backward" -> "refine"
      [] p = "refine" -> "opt"
      [] p = "opt" -> "sched"
      [] p = "sched" -> "mark"
      [] p = "mark" -> "ret"

Config == <<epochs, n_clusters, find_centroids_alg, nodes>>
Losses == <<Lc, gae_loss, total_loss>>
Output == <<error_log, csv_file, writes, labels>>
Counters == <<opt_steps, sched_steps, lr>>
EdgeState == <<G, x, num_rem, re_pc, G_in>>

\* A step of __train_network that only moves on.
Advance(name) ==
    /\ pc = name
    /\ pc' = Successor(name)
    /\ steps' = Append(steps, name)

Skip(name) ==
    /\ pc = name
    /\ pc' = Successor(name)
    /\ steps' = steps

\* ---------------------------------------------------------- run_training
\* lines 50-86: log the constants, build the model, the optimizer and the
\* scheduler, start with empty logs.
RunTraining ==
    /\ pc = "init"
    /\ pc' = "loop"
    /\ error_log' = <<>>
    /\ lr' = BaseLR
    /\ UNCHANGED <<EdgeState, Config, Q, P, clusters_centroids, first_interaction, epoch, Z,
                   Losses, csv_file, writes, labels, steps, seed_calls, logged,
                   exception, opt_steps, sched_steps>>

\* line 88: for epoch in range(self.epochs), entering __train_network
\* (lines 111-112: gae.train(), optimizer.zero_grad()) with fresh locals.
EnterEpoch ==
    /\ pc = "loop"
    /\ epoch < epochs
    /\ pc' = "encode"
    /\ steps' = <<>>
    /\ Lc' = NotComputed
    /\ gae_loss' = NotComputed
    /\ total_loss' = NotComputed
    /\ UNCHANGED <<EdgeState, Config, Q, P, clusters_centroids, first_interaction, epoch, Z,
                   Output, seed_calls, logged, exception, Counters>>

\* line 88, range exhausted.
ExitLoop ==
    /\ pc = "loop"
    /\ epoch >= epochs
    /\ pc' = "evaluate"
    /\ UNCHANGED <<EdgeState, Config, Q, P, clusters_centroids, first_interaction, epoch, Z,
                   Losses, Output, steps, seed_calls, logged, exception, Counters>>

\* -------------------------------------------------------- __train_network
EncodeShrinkingGraph ==
    /\ pc = "encode"
    /\ pc' = Successor("encode")
    /\ steps' = Append(steps, "encode")
    /\ Z' = epoch
    /\ nodes' = IF nodes > 1 THEN nodes - 1 ELSE nodes
    /\ UNCHANGED <<EdgeState, epochs, n_clusters, find_centroids_alg, Q, P, clusters_centroids,
                   first_interaction, epoch, Losses, Output, seed_calls, logged,
                   exception, Counters>>

\* lines 114-118: att_tuple, Z = gae.encode(...)
Encode ==
    /\ Advance("encode")
    /\ Z' = epoch
    /\ UNCHANGED <<EdgeState, Config, Q, P, clusters_centroids, first_interaction, epoch,
                   Losses, Output, seed_calls, logged, exception, Counters>>

\* _find_centroids(Z) returned `l`, having logged `events`; then line 122.
SeedWith(l, events) ==
    /\ pc = "seed"
    /\ NeedsSeeding(clusters_centroids)
    /\ pc' = Successor("seed")
    /\ steps' = Append(steps, "seed")
    /\ seed_calls' = seed_calls + 1
    /\ clusters_centroids' = l
    /\ logged' = logged \cup events \cup {<<"debug", "Centroids">>}
    /\ UNCHANGED <<EdgeState, Config, Q, P, first_interaction, epoch, Z, Losses, Output,
                   exception, Counters>>

\* lines 156-167
SeedPageRank ==
    /\ find_centroids_alg = "PageRank"
    /\ SeedWith(Seeded(ByPagerank(nodes, PAGERANK_TOP)), {<<"info", "PageRank">>})

\* lines 169-173
SeedKMeans ==
    /\ find_centroids_alg = "KMeans"
    /\ ~KMeansFails(nodes, n_clusters)
    /\ SeedWith(Seeded(n_clusters), {<<"info", "KMeans">>})

\* lines 169-173, k-means raising
SeedKMeansRaises ==
    /\ pc = "seed"
    /\ NeedsSeeding(clusters_centroids)
    /\ find_centroids_alg = "KMeans"
    /\ KMeansFails(nodes, n_clusters)
    /\ pc' = "raised"
    /\ exception' = "ValueError"
    /\ seed_calls' = seed_calls + 1
    /\ steps' = Append(steps, "seed")
    /\ logged' = logged \cup {<<"info", "KMeans">>}
    /\ UNCHANGED <<EdgeState, Config, Q, P, clusters_centroids, first_interaction, epoch, Z,
                   Losses, Output, Counters>>

\* lines 175-189
SeedFastGreedy ==
    /\ find_centroids_alg = "FastGreedy"
    /\ \E c \in FastGreedyCounts(nodes) :
           SeedWith(Seeded(c), {<<"info", "FastGreedy">>})

\* lines 191-201
SeedKCore ==
    /\ find_centroids_alg = "KCore"
    /\ SeedWith(Seeded(KCoreCentroids(nodes, n_clusters)), {<<"info", "KCore">>})

UnknownAlgResultNone == None

\* line 205: self.clusters_centroids = []
UnknownAlgResult == List(<<>>)

UnknownAlgEventsInfo == {<<"info", "FIND_CENTROIDS_ALG not known">>}

\* line 204: logging.error("FIND_CENTROIDS_ALG not known. Aborting...")
UnknownAlgEvents == {<<"error", "FIND_CENTROIDS_ALG not known">>}

\* lines 203-205
SeedUnknown ==
    /\ find_centroids_alg \notin Recognised
    /\ SeedWith(UnknownAlgResult, UnknownAlgEvents)

\* line 120, centroids already there
SkipSeed ==
    /\ Skip("seed")
    /\ ~NeedsSeeding(clusters_centroids)
    /\ UNCHANGED <<EdgeState, Config, Q, P, clusters_centroids, first_interaction, epoch, Z,
                   Losses, Output, seed_calls, logged, exception, Counters>>

\* line 124
CalculateQ ==
    /\ Advance("calc_q")
    /\ Q' = calculate_q(clusters_centroids, Z)
    /\ UNCHANGED <<EdgeState, Config, P, clusters_centroids, first_interaction, epoch, Z,
                   Losses, Output, seed_calls, logged, exception, Counters>>

\* lines 126-127
CalculateP ==
    /\ Advance("calc_p")
    /\ RecomputesP(epoch)
    /\ P' = calculate_p(Q)
    /\ UNCHANGED <<EdgeState, Config, Q, clusters_centroids, first_interaction, epoch, Z,
                   Losses, Output, seed_calls, logged, exception, Counters>>

\* line 126, not an interval epoch
SkipP ==
    /\ Skip("calc_p")
    /\ ~RecomputesP(epoch)
    /\ UNCHANGED <<EdgeState, Config, Q, P, clusters_centroids, first_interaction, epoch, Z,
                   Losses, Output, seed_calls, logged, exception, Counters>>

\* line 129: Lc, Q, P = clustering_loss.kl_div_loss(self.Q, self.P)
ClusteringLoss ==
    /\ Advance("kl")
    /\ \E l \in LcOutcomes : Lc' = l
    /\ UNCHANGED <<EdgeState, Config, Q, P, clusters_centroids, first_interaction, epoch, Z,
                   gae_loss, total_loss, Output, seed_calls, logged, exception,
                   Counters>>

\* lines 131-133
ReconLoss ==
    /\ Advance("recon")
    /\ \E g \in GaeOutcomes :
           /\ gae_loss' = g
           /\ total_loss' = TotalLoss(g, Lc)
    /\ UNCHANGED <<EdgeState, Config, Q, P, clusters_centroids, first_interaction, epoch, Z,
                   Lc, Output, seed_calls, logged, exception, Counters>>

\* line 135: total_loss.backward() does not raise on a non-finite loss
Backward ==
    /\ Advance("backward")
    /\ UNCHANGED <<EdgeState, Config, Q, P, clusters_centroids, first_interaction, epoch, Z,
                   Losses, Output, seed_calls, logged, exception, Counters>>

\* lines 137-140
Refine ==
    /\ Advance("refine")
    /\ ShouldRefine(first_interaction, Lc)
    /\ clusters_centroids' = update_clusters_centers(clusters_centroids)
    /\ UNCHANGED <<EdgeState, Config, Q, P, first_interaction, epoch, Z, Losses, Output,
                   seed_calls, logged, exception, Counters>>

\* line 137, condition false
SkipRefine ==
    /\ Skip("refine")
    /\ ~ShouldRefine(first_interaction, Lc)
    /\ UNCHANGED <<EdgeState, Config, Q, P, clusters_centroids, first_interaction, epoch, Z,
                   Losses, Output, seed_calls, logged, exception, Counters>>

\* line 142
OptimizerStep ==
    /\ Advance("opt")
    /\ opt_steps' = opt_steps + 1
    /\ UNCHANGED <<EdgeState, Config, Q, P, clusters_centroids, first_interaction, epoch, Z,
                   Losses, Output, seed_calls, logged, exception, sched_steps, lr>>

\* line 143
SchedulerStep ==
    /\ Advance("sched")
    /\ sched_steps' = sched_steps + 1
    /\ lr' = IF DecaysAt(sched_steps + 1) THEN Decay(lr) ELSE lr
    /\ UNCHANGED <<EdgeState, Config, Q, P, clusters_centroids, first_interaction, epoch, Z,
                   Losses, Output, seed_calls, logged, exception, opt_steps>>

InteractionStillFirst == TRUE

\* line 145: the value assigned to self.first_interaction
InteractionDone == FALSE

\* line 145
MarkInteraction ==
    /\ Advance("mark")
    /\ first_interaction' = InteractionDone
    /\ UNCHANGED <<EdgeState, Config, Q, P, clusters_centroids, epoch, Z, Losses, Output,
                   seed_calls, logged, exception, Counters>>

EpochRowSwapped(e) == <<e, "Lc", "total_loss", "gae_loss">>

\* line 147 returns (total_loss, Z, att_tuple, Lc, gae_loss), line 89 binds
\* them to loss, Z, att_tuple, c_loss, gae_loss, and line 94 builds the row
\* [epoch, loss, c_loss, gae_loss].  A float is abstracted to the name of the
\* quantity of __train_network it holds.
EpochRow(e) == <<e, "total_loss", "Lc", "gae_loss">>

\* lines 147 and 89-94
EpochReturn ==
    /\ pc = "ret"
    /\ pc' = "loop"
    /\ error_log' = Append(error_log, EpochRow(epoch))
    /\ epoch' = epoch + 1
    /\ logged' = logged \cup {<<"info", "Loss">>}
    /\ UNCHANGED <<EdgeState, Config, Q, P, clusters_centroids, first_interaction, Z, Losses,
                   csv_file, writes, labels, steps, seed_calls, exception,
                   Counters>>

\* ------------------------------------------------- run_training, the end
\* lines 98-99: `for line in self.Q` with self.Q still the integer 0
EvaluateRaises ==
    /\ pc = "evaluate"
    /\ ~Q.set
    /\ pc' = "raised"
    /\ exception' = "TypeError"
    /\ UNCHANGED <<EdgeState, Config, Q, P, clusters_centroids, first_interaction, epoch, Z,
                   Losses, Output, steps, seed_calls, logged, Counters>>

HardLabelsOfP(q) == [set |-> TRUE, epoch |-> P.epoch, k |-> P.k]

\* lines 96-99: r holds np.argmax of every row of self.Q; the labels are
\* abstracted to the Q they were derived from.
HardLabels(q) == [set |-> TRUE, epoch |-> q.epoch, k |-> q.k]

\* lines 96-104
Evaluate ==
    /\ pc = "evaluate"
    /\ Q.set
    /\ pc' = "write"
    /\ labels' = HardLabels(Q)
    /\ logged' = logged \cup {<<"info", "Normalized mutual info score">>}
    /\ UNCHANGED <<EdgeState, Config, Q, P, clusters_centroids, first_interaction, epoch, Z,
                   Losses, error_log, csv_file, writes, steps, seed_calls,
                   exception, Counters>>

\* lines 106-108
WriteErrors ==
    /\ pc = "write"
    /\ pc' = "done"
    /\ csv_file' = error_log
    /\ writes' = writes + 1
    /\ UNCHANGED <<EdgeState, Config, Q, P, clusters_centroids, first_interaction, epoch, Z,
                   Losses, error_log, labels, steps, seed_calls, logged, exception,
                   Counters>>

Next ==
    \/ RunTraining
    \/ EnterEpoch
    \/ ExitLoop
    \/ Encode
    \/ SeedPageRank
    \/ SeedKMeans
    \/ SeedKMeansRaises
    \/ SeedFastGreedy
    \/ SeedKCore
    \/ SeedUnknown
    \/ SkipSeed
    \/ CalculateQ
    \/ CalculateP
    \/ SkipP
    \/ ClusteringLoss
    \/ ReconLoss
    \/ Backward
    \/ Refine
    \/ SkipRefine
    \/ OptimizerStep
    \/ SchedulerStep
    \/ MarkInteraction
    \/ EpochReturn
    \/ EvaluateRaises
    \/ Evaluate
    \/ WriteErrors

Spec == Init /\ [][Next]_vars

SpecLong == InitLong /\ [][Next]_vars

\* =================================================== src/utils/utils.py
\* A networkx graph on the nodes 1..n: n, and the weight of every edge
\* <<u, v>> with u < v.
Pairs(n) == {e \in (1..n) \X (1..n) : e[1] < e[2]}
Edges(g) == DOMAIN g.w
Graphs(n) == UNION {[E -> 1..MaxWeight] : E \in SUBSET Pairs(n)}

\* line 68: Python's round(len(G.nodes) / x), which rounds halves to even
round(n, d) ==
    LET q == n \div d
        r == n % d
    IN  IF 2 * r < d THEN q
        ELSE IF 2 * r > d THEN q + 1
        ELSE IF q % 2 = 0 THEN q ELSE q + 1

\* The nodes reachable from the set S.
RECURSIVE Reachable(_, _)
Reachable(g, S) ==
    LET T == S \cup {v \in 1..g.n :
                        \E u \in S : <<u, v>> \in Edges(g) \/ <<v, u>> \in Edges(g)}
    IN  IF T = S THEN S ELSE Reachable(g, T)

\* line 70: nx.connected_components(G)
connected_components(g) == {Reachable(g, {u}) : u \in 1..g.n}

check_size_of_groups_strict(g, d) ==
    \A group \in connected_components(g) : Cardinality(group) < round(g.n, d)

\* lines 61-79
check_size_of_groups(g, d) ==
    \A group \in connected_components(g) : Cardinality(group) <= round(g.n, d)

\* lines 21-22: the least weight of an edge (of a graph that has edges)
min_weight(g) ==
    CHOOSE m \in {g.w[e] : e \in Edges(g)} : \A e \in Edges(g) : m <= g.w[e]

edges_to_remove_first(g) ==
    {CHOOSE e \in Edges(g) : g.w[e] = min_weight(g)}

\* lines 25-27
edges_to_remove(g) == {e \in Edges(g) : g.w[e] = min_weight(g)}

\* lines 15-32
remove_min_weight_edges(g) ==
    [n |-> g.n, w |-> [e \in Edges(g) \ edges_to_remove(g) |-> g.w[e]]]

RunnerIdle ==
    /\ epochs = 0
    /\ n_clusters = 1
    /\ find_centroids_alg = "KMeans"
    /\ nodes = 1
    /\ Constructed

\* A caller is about to call remove_edges(G, x).
InitRemoveEdges ==
    /\ RunnerIdle
    /\ \E n \in 1..MaxGraphNodes : \E w \in Graphs(n) : G = [n |-> n, w |-> w]
    /\ x \in 1..MaxDivisor
    /\ num_rem = 0
    /\ re_pc = "call"
    /\ G_in = G

\* lines 47-51
RemoveEdgesCall ==
    /\ re_pc = "call"
    /\ re_pc' = "loop"
    /\ num_rem' = 0
    /\ UNCHANGED <<G, x, G_in>>
    /\ UNCHANGED <<Config, Q, P, clusters_centroids, first_interaction, pc, epoch,
                   Z, Losses, Output, steps, seed_calls, logged, exception,
                   Counters>>

\* lines 52-54: the size check fails and the graph has an edge to remove
RemoveEdgesIterate ==
    /\ re_pc = "loop"
    /\ ~check_size_of_groups(G, x)
    /\ Edges(G) # {}
    /\ G' = remove_min_weight_edges(G)
    /\ num_rem' = num_rem + 1
    /\ UNCHANGED <<x, re_pc, G_in>>
    /\ UNCHANGED <<Config, Q, P, clusters_centroids, first_interaction, pc, epoch,
                   Z, Losses, Output, steps, seed_calls, logged, exception,
                   Counters>>

\* lines 52-53 and 21: the size check fails on a graph without edges, and
\* min() of an empty sequence raises ValueError
RemoveEdgesRaises ==
    /\ re_pc = "loop"
    /\ ~check_size_of_groups(G, x)
    /\ Edges(G) = {}
    /\ re_pc' = "raised"
    /\ UNCHANGED <<G, x, num_rem, G_in>>
    /\ UNCHANGED <<Config, Q, P, clusters_centroids, first_interaction, pc, epoch,
                   Z, Losses, Output, steps, seed_calls, logged, exception,
                   Counters>>

\* lines 52 and 56-58
RemoveEdgesReturn ==
    /\ re_pc = "loop"
    /\ check_size_of_groups(G, x)
    /\ re_pc' = "returned"
    /\ UNCHANGED <<G, x, num_rem, G_in>>
    /\ UNCHANGED <<Config, Q, P, clusters_centroids, first_interaction, pc, epoch,
                   Z, Losses, Output, steps, seed_calls, logged, exception,
                   Counters>>

NextRemoveEdges ==
    \/ RemoveEdgesCall
    \/ RemoveEdgesIterate
    \/ RemoveEdgesRaises
    \/ RemoveEdgesReturn

\* The one thread that runs remove_edges always takes its next step.
SpecRemoveEdges ==
    InitRemoveEdges /\ [][NextRemoveEdges]_vars /\ WF_vars(NextRemoveEdges)

\* ================================================================ claims
InEpoch == {"encode", "seed", "calc_q", "calc_p", "kl", "recon", "backward",
            "refine", "opt", "sched", "mark", "ret"}
AfterPStep == {"kl", "recon", "backward", "refine", "opt", "sched", "mark", "ret"}
AfterRefineStep == {"opt", "sched", "mark", "ret"}

\* How often the current call of __train_network has taken the step `name`.
Occurrences(name) == Cardinality({i \in DOMAIN steps : steps[i] = name})

\* C1: in every epoch e, once past the P step, Q has been recomputed in e
\* (from the Z of e), and P has been recomputed in e if and only if
\* e mod CALC_P_INTERVAL = 0; in the other epochs P is still the one of the
\* last interval epoch, so it is unchanged between two epochs of one interval
\* while Q is replaced.
C1_PQCadence ==
    pc \in AfterPStep =>
        /\ Occurrences("calc_q") = 1
        /\ Q.set /\ Q.epoch = epoch
        /\ Occurrences("calc_p") = (IF epoch % CALC_P_INTERVAL = 0 THEN 1 ELSE 0)
        /\ P.set /\ P.epoch = epoch - (epoch % CALC_P_INTERVAL)

\* An epoch past the first interval boundary that did not recompute P.
C1_Witness ==
    /\ pc = "ret"
    /\ epoch = CALC_P_INTERVAL + 1
    /\ P.epoch = CALC_P_INTERVAL
    /\ Q.epoch = epoch

\* C2: refinement is not performed in the first trained epoch
\* (first_interaction true) nor in an epoch whose clustering loss is exactly
\* 0, whatever the epoch; in every other epoch it is performed exactly once.
C2_RefinementGuard ==
    /\ first_interaction => Occurrences("refine") = 0
    /\ pc \in AfterRefineStep =>
           Occurrences("refine") = (IF epoch = 0 \/ Lc = Finite(0) THEN 0 ELSE 1)

\* A later epoch with a clustering loss of exactly 0, past the refine step.
C2_Witness ==
    /\ pc = "opt"
    /\ epoch >= 1
    /\ Lc = Finite(0)
    /\ Occurrences("refine") = 0

\* C3: _find_centroids is called at most once per run and only in epoch 0,
\* for every strategy name, an unknown one included.
C3_SeedOnce ==
    /\ seed_calls <= 1
    /\ (pc \in InEpoch /\ Occurrences("seed") > 0) => epoch = 0
    /\ (pc \in InEpoch /\ epoch >= 1) => Occurrences("seed") = 0

\* An unknown strategy, whose result is the empty list, in a later epoch.
C3_Witness ==
    /\ find_centroids_alg = "Unknown"
    /\ clusters_centroids = List(<<>>)
    /\ epoch = 2
    /\ pc = "calc_q"
    /\ seed_calls = 1

\* C4: after seeding with a recognised strategy on a graph of at least
\* n_clusters nodes, len(clusters_centroids) = n_clusters.
C4_CentroidCount ==
    (/\ seed_calls >= 1
     /\ ~clusters_centroids.isNone
     /\ find_centroids_alg \in Recognised
     /\ nodes >= n_clusters)
        => Len(clusters_centroids.list) = n_clusters

\* C5: run_training with epochs = 0 never raises.
C5_ZeroEpochsNeverRaises ==
    epochs = 0 => (pc # "raised" /\ exception = "none")

\* C6: a non-finite total loss halts the run in its epoch: the run does not
\* go on to the loop head, another epoch, the evaluation or the return.
C6_HaltsOnNonFinite ==
    ~total_loss.finite => pc \notin {"loop", "evaluate", "write", "done"}

\* C7: with an unrecognised find_centroids_alg, _find_centroids does not
\* raise, leaves the empty list as the centroid set and logs an event of
\* severity error; no recognised strategy logs one.
C7_UnknownStrategy ==
    /\ (find_centroids_alg \notin Recognised /\ seed_calls >= 1) =>
           /\ clusters_centroids = List(<<>>)
           /\ \E e \in logged : e[1] = "error"
    /\ (find_centroids_alg \notin Recognised /\ pc = "calc_q" /\ epoch = 0) =>
           exception = "none"
    /\ find_centroids_alg \in Recognised => \A e \in logged : e[1] # "error"

\* The seeder has just returned for an unknown strategy.
C7_Witness ==
    /\ find_centroids_alg = "Unknown"
    /\ seed_calls = 1
    /\ pc = "calc_q"
    /\ epoch = 0
    /\ <<"error", "FIND_CENTROIDS_ALG not known">> \in logged

\* C8: with FastGreedy, calculate_q is never called with fewer than
\* n_clusters centroids.
C8_CaughtBeforeQ ==
    (find_centroids_alg = "FastGreedy" /\ Q.set) => Q.k >= n_clusters

EpochOrder == <<"encode", "seed", "calc_q", "calc_p", "kl", "recon", "backward",
                "refine", "opt", "sched", "mark">>
Mandatory == {"encode", "calc_q", "kl", "recon", "backward", "opt", "sched", "mark"}
Position(name) == CHOOSE i \in DOMAIN EpochOrder : EpochOrder[i] = name

\* C10: the steps of an epoch are taken in the fixed order encode, seed,
\* compute Q, recompute P, clustering loss, reconstruction loss, backward,
\* refinement, optimizer step, scheduler step, first_interaction = false,
\* each at most once, the seeding only in the epoch that finds the centroids
\* undefined; an epoch that has returned has taken every unconditional step,
\* and the next epoch starts from none.
C10_StepOrder ==
    /\ \A i \in 1..(Len(steps) - 1) : Position(steps[i]) < Position(steps[i + 1])
    /\ (pc = "ret" \/ (pc = "loop" /\ epoch > 0)) =>
           /\ \A m \in Mandatory : Occurrences(m) = 1
           /\ steps[Len(steps)] = "mark"
    /\ pc = "encode" => steps = <<>>
    /\ pc \in (InEpoch \ {"encode", "seed"}) =>
           Occurrences("seed") = (IF epoch = 0 THEN 1 ELSE 0)
    /\ first_interaction => Occurrences("mark") = 0
    /\ pc \in {"loop", "encode"} => (opt_steps = epoch /\ sched_steps = epoch)

\* An epoch that refined the centroids has returned.
C10_Witness ==
    /\ pc = "ret"
    /\ epoch >= 1
    /\ Occurrences("refine") = 1
    /\ Occurrences("backward") = 1
    /\ Occurrences("opt") = 1

Phase ==
    IF clusters_centroids.isNone THEN "SEEDING"
    ELSE IF first_interaction THEN "WARM" ELSE "STEADY"
PhaseRank(ph) == CASE ph = "SEEDING" -> 0 [] ph = "WARM" -> 1 [] ph = "STEADY" -> 2

C11_StateInvariant ==
    /\ first_interaction = FALSE => ~clusters_centroids.isNone
    /\ first_interaction <=> (epoch = 0 /\ pc # "ret")
    /\ clusters_centroids.isNone <=> seed_calls = 0 \/ exception = "ValueError"

C11_Step ==
    /\ PhaseRank(Phase') \in {PhaseRank(Phase), PhaseRank(Phase) + 1}
    /\ first_interaction = FALSE => first_interaction' = FALSE
    /\ ~clusters_centroids.isNone => ~clusters_centroids'.isNone

\* C11: the run moves only SEEDING -> WARM -> STEADY, one phase at a time
\* and never backwards: first_interaction is true from construction to the
\* end of epoch 0 and false afterwards, the centroid set becomes defined
\* once and stays defined, and first_interaction = false implies that the
\* centroid set is defined.
C11_Phases == [](C11_StateInvariant) /\ [][C11_Step]_vars

\* A STEADY state: a later epoch, centroids defined, not the first interaction.
C11_Witness ==
    /\ Phase = "STEADY"
    /\ epoch >= 1
    /\ pc = "refine"

AfterLastEpoch == epochs >= 1 /\ epoch = epochs

C12_LabelsOfLastQ ==
    pc \in {"write", "done"} =>
        /\ labels.set
        /\ labels.epoch = epochs - 1
        /\ Q.epoch = epochs - 1
        /\ labels.k = Q.k

\* C12: after epochs >= 1 iterations the hard labels are derived from the Q
\* of the last epoch, and once the last epoch has returned no step changes
\* the centroid set, Q, P or first_interaction.
C12_Terminal ==
    /\ [](C12_LabelsOfLastQ)
    /\ [][AfterLastEpoch =>
            UNCHANGED <<clusters_centroids, Q, P, first_interaction>>]_vars

\* A run of several epochs has returned with its labels.
C12_Witness ==
    /\ pc = "done"
    /\ epochs > CALC_P_INTERVAL
    /\ labels.epoch = epochs - 1
    /\ P.epoch # labels.epoch

\* C13: when the clustering loss of epoch e is computed, P has been computed
\* in this run, from the Q of epoch CALC_P_INTERVAL * floor(e / CALC_P_INTERVAL):
\* it is never the placeholder and is at most CALC_P_INTERVAL - 1 epochs old.
C13_PAtLossTime ==
    pc \in {"kl", "recon"} =>
        /\ P.set
        /\ P.epoch = CALC_P_INTERVAL * (epoch \div CALC_P_INTERVAL)
        /\ epoch - P.epoch >= 0
        /\ epoch - P.epoch <= CALC_P_INTERVAL - 1

\* The loss of the last epoch of an interval: P is as stale as it gets.
C13_Witness ==
    /\ pc = "recon"
    /\ epoch = CALC_P_INTERVAL - 1
    /\ P.set
    /\ P.epoch = 0

\* C15: no step of a run changes its configuration or its inputs: epochs,
\* n_clusters, find_centroids_alg and the graph stay as constructed (the
\* module constants are definitions and cannot change), so every epoch
\* encodes the same graph.
C15_ConfigFrame ==
    [][UNCHANGED <<epochs, n_clusters, find_centroids_alg, nodes>>]_vars

\* A later epoch has encoded the graph again.
C15_Witness ==
    /\ pc = "seed"
    /\ epoch >= 2
    /\ Z = epoch

RECURSIVE Pow(_, _)
Pow(b, e) == IF e = 0 THEN 1 ELSE b * Pow(b, e - 1)

Flag(b) == IF b THEN 1 ELSE 0

\* C14: the scheduler is stepped once per epoch, after the optimizer step of
\* that epoch, and after n scheduler steps the learning rate is
\* LEARNING_RATE * LR_CHANGE_GAMMA ^ floor(n / LR_CHANGE_EPOCHS): it has been
\* decayed floor(n / LR_CHANGE_EPOCHS) times and at no other point.
C14_LearningRate ==
    /\ pc \in (InEpoch \cup {"loop", "evaluate", "write", "done"}) =>
           /\ opt_steps = epoch + Flag(pc \in {"sched", "mark", "ret"})
           /\ sched_steps = epoch + Flag(pc \in {"mark", "ret"})
    /\ sched_steps <= opt_steps
    /\ pc # "init" =>
           /\ lr.num = LEARNING_RATE_NUM
                         * Pow(LR_CHANGE_GAMMA_NUM, sched_steps \div LR_CHANGE_EPOCHS)
           /\ lr.den = LEARNING_RATE_DEN
                         * Pow(LR_CHANGE_GAMMA_DEN, sched_steps \div LR_CHANGE_EPOCHS)

\* The scheduler step that decays the rate for the first time.
C14_Witness ==
    /\ pc = "mark"
    /\ sched_steps = LR_CHANGE_EPOCHS
    /\ opt_steps = LR_CHANGE_EPOCHS
    /\ lr = Decay(BaseLR)

Removed == Edges(G_in) \ Edges(G)

\* The edges left are edges of the input with their weights; whole weight
\* classes were removed, lowest first, one class per iteration.
RemovedByMinWeight ==
    /\ Edges(G) \subseteq Edges(G_in)
    /\ \A e \in Edges(G) : G.w[e] = G_in.w[e]
    /\ \A e \in Removed : \A f \in Edges(G) : G_in.w[e] < G.w[f]
    /\ num_rem = Cardinality({G_in.w[e] : e \in Removed})

\* C16: when remove_edges returns, the graph has the nodes it had, no
\* connected component of more than round(|V| / x) nodes, and is the input
\* without its lowest weight classes: every iteration removed all the edges
\* of the least weight and no other edge.
C16_RemoveEdgesResult ==
    /\ G.n = G_in.n
    /\ RemovedByMinWeight
    /\ re_pc = "returned" =>
           \A group \in connected_components(G) :
               Cardinality(group) <= round(G_in.n, x)

\* A call that returned after removing the lighter edges and left the others.
C16_Witness ==
    /\ re_pc = "returned"
    /\ num_rem = 1
    /\ Edges(G) # {}
    /\ Removed # {}

C17_Progress ==
    /\ Cardinality(Edges(G)) + num_rem <= Cardinality(Edges(G_in))
    /\ re_pc = "raised" => (Edges(G) = {} /\ round(G.n, x) = 0)

\* C17: remove_edges terminates: every iteration removes at least one edge,
\* so there are at most |E| of them, and the call returns or, when the size
\* check fails on a graph without edges (round(|V| / x) = 0), raises.
C17_Terminates ==
    /\ [](C17_Progress)
    /\ <>(re_pc \in {"returned", "raised"})

\* A call that removed every edge and then raised.
C17_Witness ==
    /\ re_pc = "raised"
    /\ num_rem >= 1
    /\ Edges(G) = {}
    /\ Edges(G_in) # {}

====
